---- MODULE Spec2Model ----
(***************************************************************************)
(* corncobs: COBS-framed records over a byte stream.                       *)
(*                                                                         *)
(* The model follows src/corncobs.py: the stream engine StreamCOBS (write, *)
(* read, update, add_listener, close) over a seekable byte buffer with one *)
(* cursor shared by reads and writes (io.BytesIO, the transport of         *)
(* src/test_corncobs.py), and the record DataPacket (init, set_field,      *)
(* pack, unpack) with its crc16 trailer.                                   *)
(***************************************************************************)
EXTENDS Integers, Sequences, FiniteSets, TLC

VARIABLES
    stream,     \* the transport's byte buffer (io.BytesIO contents)
    pos,        \* the transport's cursor, shared by read and write
    closed,     \* the transport has been closed
    callbacks,  \* StreamCOBS.callbacks, in registration order
    last,       \* the last engine call: its name, arguments, result and effects
    lastWrite,  \* history: where the last write() put its frame, and its payload
    run,        \* history: the reads made since the cursor was last set
    nwrites,    \* number of write() calls made (bounded)
    definition, \* DataPacket.definition: the schema, a sequence of (name, type)
    values,     \* DataPacket.values: None (init = FALSE) or the value map
    byteorder,  \* the platform's byte order, which struct's '=H' follows
    plast,      \* the last DataPacket call: its name, argument kind and result
    packed,     \* history: the buffer the last pack() returned, and its values
    origin,     \* history: the call that last assigned the value map
    loop_running, \* StreamCOBS.loop_running
    threads,    \* the background contexts loop_thread() started, each at its step
    delivered   \* history: the listener calls the background contexts made

svars == <<stream, pos, closed, callbacks, last, lastWrite, run, nwrites>>

pvars == <<definition, values, byteorder, plast, packed, origin>>

lvars == <<loop_running, threads, delivered>>

vars == <<svars, pvars, lvars>>

----------------------------------------------------------------------------
(* Bounds of the model. *)

MaxPayload == 2        \* write() is given every payload up to this length ...
LongPayload == 5       \* ... and one run of non-zero bytes of this length
MaxStream == 10        \* longest transport buffer
MaxWrites == 2         \* write() calls in one behaviour
MaxListeners == 2      \* listeners registered in one behaviour
MaxGarbage == 2        \* longest content the transport starts with
MaxFields == 2         \* longest schema
MaxFrames == 2         \* complete frames behind a truncated one
MaxChannelStream == 13 \* longest transport buffer a channel writes
MaxThreads == 2        \* loop_thread() calls in one behaviour

(* Program constants. *)
DefaultMaxBytes == 255 \* read(self, max_bytes=255)
SyncSlack == 5         \* range(max_bytes - 5)

PayloadBytes == {0, 1}
Listeners == {"cb1", "cb2"}
MaxBytesChoices == {SyncSlack - 1, SyncSlack, SyncSlack + 1, DefaultMaxBytes}

----------------------------------------------------------------------------
(* Byte sequences. *)

RECURSIVE SeqsUpTo(_, _)
SeqsUpTo(S, n) ==
    IF n = 0 THEN {<<>>}
    ELSE LET shorter == SeqsUpTo(S, n - 1)
         IN  shorter \cup {Append(s, b) : s \in {t \in shorter : Len(t) = n - 1}, b \in S}

Min(a, b) == IF a < b THEN a ELSE b

IndexOfZero(s, from) ==
    \* least index >= from holding 0, or Len(s) + 1 when there is none
    LET zs == {i \in from..Len(s) : s[i] = 0}
    IN  IF zs = {} THEN Len(s) + 1 ELSE CHOOSE i \in zs : \A j \in zs : i <= j

----------------------------------------------------------------------------
(* cobs.encode / cobs.decode: the byte-stuffing primitive the engine        *)
(* imports (from cobs import cobs), by the library's algorithm.            *)

RECURSIVE encode_from(_, _, _, _)
encode_from(in_bytes, idx, search_start_idx, final_zero) ==
    \* idx, search_start_idx are 0-based as in the library
    IF idx = Len(in_bytes)
    THEN IF idx # search_start_idx \/ final_zero
         THEN <<idx - search_start_idx + 1>>
              \o SubSeq(in_bytes, search_start_idx + 1, idx)
         ELSE <<>>
    ELSE IF in_bytes[idx + 1] = 0
         THEN <<idx - search_start_idx + 1>>
              \o SubSeq(in_bytes, search_start_idx + 1, idx)
              \o encode_from(in_bytes, idx + 1, idx + 1, TRUE)
         ELSE IF idx - search_start_idx = 253
              THEN <<255>>
                   \o SubSeq(in_bytes, search_start_idx + 1, idx + 1)
                   \o encode_from(in_bytes, idx + 1, idx + 1, FALSE)
              ELSE encode_from(in_bytes, idx + 1, search_start_idx, final_zero)

encode(in_bytes) == encode_from(in_bytes, 0, 0, TRUE)

DecodeError == [kind |-> "DecodeError", data |-> <<>>]

RECURSIVE decode_from(_, _, _)
decode_from(in_bytes, idx, out_bytes) ==
    \* one turn of the library's while loop; idx is 0-based
    LET length == in_bytes[idx + 1]
        end == idx + length
        copy_bytes == SubSeq(in_bytes, idx + 2, Min(end, Len(in_bytes)))
    IN  IF length = 0 \/ \E i \in 1..Len(copy_bytes) : copy_bytes[i] = 0
        THEN DecodeError
        ELSE IF end > Len(in_bytes)
        THEN DecodeError
        ELSE IF end < Len(in_bytes)
        THEN decode_from(in_bytes, end,
                         IF length < 255 THEN out_bytes \o copy_bytes \o <<0>>
                                         ELSE out_bytes \o copy_bytes)
        ELSE [kind |-> "data", data |-> out_bytes \o copy_bytes]

decode(in_bytes) ==
    IF Len(in_bytes) = 0 THEN [kind |-> "data", data |-> <<>>]
    ELSE decode_from(in_bytes, 0, <<>>)

----------------------------------------------------------------------------
(* The transport: io.BytesIO, as src/test_corncobs.py drives it.           *)

stream_read(s, p, nbytes) ==
    \* up to nbytes bytes from the cursor; <<>> at end of stream
    SubSeq(s, p + 1, Min(p + nbytes, Len(s)))

stream_write(s, p, data) ==
    \* overwrite at the cursor, extending the buffer when it runs past the end
    SubSeq(s, 1, p) \o data \o SubSeq(s, p + Len(data) + 1, Len(s))

----------------------------------------------------------------------------
(* StreamCOBS.write: the framed buffer handed to the transport.            *)

(* frame with the payload written as it is, not stuffed                    *)
frame_unstuffed(data) == <<0>> \o data \o <<0>>

(* frame with no closing delimiter                                         *)
frame_open(data) == <<0>> \o encode(data)

frame(data) == <<0>> \o encode(data) \o <<0>>

----------------------------------------------------------------------------
(* StreamCOBS.read(max_bytes).                                             *)

NoFrame(p, outcome, nreads, raw) ==
    [kind |-> "None", data |-> <<>>, pos |-> p, outcome |-> outcome,
     nreads |-> nreads, raw |-> raw]

(* accumulate with the decoder reached only by raw buffers longer than 2   *)
RECURSIVE accumulate_min3(_, _, _, _, _, _)
accumulate_min3(s, p, raw_data, count, max_bytes, nreads) ==
    LET inbyte == stream_read(s, p, 1)
    IN  IF inbyte # <<0>>
        THEN IF count = max_bytes
             THEN NoFrame(p + Len(inbyte), "TOO_LONG", nreads + 1, raw_data)
             ELSE IF Len(inbyte) = 0
             THEN NoFrame(p, "EOF", nreads + 1, raw_data)
             ELSE accumulate_min3(s, p + 1, Append(raw_data, inbyte[1]), count + 1,
                                  max_bytes, nreads + 1)
        ELSE IF Len(raw_data) <= 2
             THEN NoFrame(p + 1, "SHORT", nreads + 1, raw_data)
             ELSE LET d == decode(raw_data)
                  IN  [kind |-> d.kind, data |-> d.data, pos |-> p + 1,
                       outcome |-> "FRAME_COMPLETE", nreads |-> nreads + 1,
                       raw |-> raw_data]

(* accumulate with every terminated raw buffer handed to the decoder       *)
RECURSIVE accumulate_any(_, _, _, _, _, _)
accumulate_any(s, p, raw_data, count, max_bytes, nreads) ==
    LET inbyte == stream_read(s, p, 1)
    IN  IF inbyte # <<0>>
        THEN IF count = max_bytes
             THEN NoFrame(p + Len(inbyte), "TOO_LONG", nreads + 1, raw_data)
             ELSE IF Len(inbyte) = 0
             THEN NoFrame(p, "EOF", nreads + 1, raw_data)
             ELSE accumulate_any(s, p + 1, Append(raw_data, inbyte[1]), count + 1,
                                 max_bytes, nreads + 1)
        ELSE LET d == decode(raw_data)
             IN  [kind |-> d.kind, data |-> d.data, pos |-> p + 1,
                  outcome |-> "FRAME_COMPLETE", nreads |-> nreads + 1,
                  raw |-> raw_data]

(* accumulate with no limit on the raw buffer                              *)
RECURSIVE accumulate_nolimit(_, _, _, _, _, _)
accumulate_nolimit(s, p, raw_data, count, max_bytes, nreads) ==
    LET inbyte == stream_read(s, p, 1)
    IN  IF inbyte # <<0>>
        THEN IF Len(inbyte) = 0
             THEN NoFrame(p, "EOF", nreads + 1, raw_data)
             ELSE accumulate_nolimit(s, p + 1, Append(raw_data, inbyte[1]), count + 1,
                                     max_bytes, nreads + 1)
        ELSE IF Len(raw_data) < 2
             THEN NoFrame(p + 1, "SHORT", nreads + 1, raw_data)
             ELSE LET d == decode(raw_data)
                  IN  [kind |-> d.kind, data |-> d.data, pos |-> p + 1,
                       outcome |-> "FRAME_COMPLETE", nreads |-> nreads + 1,
                       raw |-> raw_data]

(* accumulate with the limit tested one byte late                         *)
RECURSIVE accumulate_late(_, _, _, _, _, _)
accumulate_late(s, p, raw_data, count, max_bytes, nreads) ==
    LET inbyte == stream_read(s, p, 1)
    IN  IF inbyte # <<0>>
        THEN IF count = max_bytes + 1
             THEN NoFrame(p + Len(inbyte), "TOO_LONG", nreads + 1, raw_data)
             ELSE IF Len(inbyte) = 0
             THEN NoFrame(p, "EOF", nreads + 1, raw_data)
             ELSE accumulate_late(s, p + 1, Append(raw_data, inbyte[1]), count + 1,
                                  max_bytes, nreads + 1)
        ELSE IF Len(raw_data) < 2
             THEN NoFrame(p + 1, "SHORT", nreads + 1, raw_data)
             ELSE LET d == decode(raw_data)
                  IN  [kind |-> d.kind, data |-> d.data, pos |-> p + 1,
                       outcome |-> "FRAME_COMPLETE", nreads |-> nreads + 1,
                       raw |-> raw_data]

RECURSIVE accumulate(_, _, _, _, _, _)
accumulate(s, p, raw_data, count, max_bytes, nreads) ==
    \* the while True loop; every _read_stream(1) here returns normally
    LET inbyte == stream_read(s, p, 1)
    IN  IF inbyte # <<0>>
        THEN IF count = max_bytes
             THEN NoFrame(p + Len(inbyte), "TOO_LONG", nreads + 1, raw_data)
             ELSE IF Len(inbyte) = 0
             THEN NoFrame(p, "EOF", nreads + 1, raw_data)
             ELSE accumulate(s, p + 1, Append(raw_data, inbyte[1]), count + 1,
                             max_bytes, nreads + 1)
        ELSE IF Len(raw_data) < 2
             THEN NoFrame(p + 1, "SHORT", nreads + 1, raw_data)
             ELSE LET d == decode(raw_data)
                  IN  [kind |-> d.kind, data |-> d.data, pos |-> p + 1,
                       outcome |-> "FRAME_COMPLETE", nreads |-> nreads + 1,
                       raw |-> raw_data]

(* scan_start with one attempt more: range(max_bytes - 4)                 *)
RECURSIVE scan_start_slack4(_, _, _, _, _, _)
scan_start_slack4(s, p, isClosed, i, max_bytes, nreads) ==
    IF i > max_bytes - SyncSlack
    THEN NoFrame(p, "DESYNC_TIMEOUT", nreads, <<>>)
    ELSE IF isClosed \/ p >= Len(s)
    THEN NoFrame(p, "DESYNC_TIMEOUT", nreads + (max_bytes - SyncSlack + 1 - i), <<>>)
    ELSE LET start_byte == stream_read(s, p, 1)
         IN  IF start_byte = <<0>>
             THEN accumulate(s, p + 1, <<>>, 0, max_bytes, nreads + 1)
             ELSE scan_start_slack4(s, p + Len(start_byte), isClosed, i + 1, max_bytes,
                                    nreads + 1)

RECURSIVE scan_start(_, _, _, _, _, _)
scan_start(s, p, isClosed, i, max_bytes, nreads) ==
    \* for i in range(max_bytes - 5): ... else: return None
    IF i >= max_bytes - SyncSlack
    THEN NoFrame(p, "DESYNC_TIMEOUT", nreads, <<>>)
    ELSE IF isClosed \/ p >= Len(s)
    THEN \* every remaining attempt raises (closed transport: except: continue)
         \* or reads b'' (end of stream): the loop runs out without a break
         NoFrame(p, "DESYNC_TIMEOUT", nreads + (max_bytes - SyncSlack - i), <<>>)
    ELSE LET start_byte == stream_read(s, p, 1)
         IN  IF start_byte = <<0>>
             THEN accumulate(s, p + 1, <<>>, 0, max_bytes, nreads + 1)
             ELSE scan_start(s, p + Len(start_byte), isClosed, i + 1, max_bytes,
                             nreads + 1)

read(s, p, isClosed, max_bytes) == scan_start(s, p, isClosed, 0, max_bytes, 0)

----------------------------------------------------------------------------
(* Python values handed to a DataPacket: int, float (an IEEE-754 double)   *)
(* and bytes.  A non-zero double is (-1)^s * (hi * 2^29 + lo) * 2^(e - 52) *)
(* with hi in 2^23..2^24-1 (the top 24 bits of its 53-bit significand) and *)
(* lo in 0..2^29-1 (the low 29 bits); zero has hi = 0.                     *)

Float(s, e, hi, lo) == [s |-> s, e |-> e, hi |-> hi, lo |-> lo]

FloatZero == Float(0, 0, 0, 0)

PyInt(n) == [t |-> "int", i |-> n, f |-> FloatZero, b |-> <<>>]

PyFloat(x) == [t |-> "float", i |-> 0, f |-> x, b |-> <<>>]

PyBytes(s) == [t |-> "bytes", i |-> 0, f |-> FloatZero, b |-> s]

RECURSIVE Log2(_)
Log2(n) == IF n <= 1 THEN 0 ELSE 1 + Log2(n \div 2)

Abs(n) == IF n < 0 THEN -n ELSE n

(* int -> double, exact for every int of the model *)
int_to_float(n) ==
    IF n = 0 THEN FloatZero
    ELSE LET a == Abs(n)
             k == Log2(a)
         IN  IF k <= 23
             THEN Float(IF n < 0 THEN 1 ELSE 0, k, a * 2^(23 - k), 0)
             ELSE Float(IF n < 0 THEN 1 ELSE 0, k, a \div 2^(k - 23),
                        (a % 2^(k - 23)) * 2^(52 - k))

(* Python's == on floats (no NaN among the model's values) *)
FloatEq(x, y) == (x.hi = 0 /\ y.hi = 0) \/ x = y

(* Python's == on values: an int equals the float of the same number *)
PyEq(a, b) ==
    IF a.t = "int" /\ b.t = "int" THEN a.i = b.i
    ELSE IF a.t = "bytes" /\ b.t = "bytes" THEN a.b = b.b
    ELSE IF a.t = "bytes" \/ b.t = "bytes" THEN FALSE
    ELSE FloatEq(IF a.t = "int" THEN int_to_float(a.i) ELSE a.f,
                 IF b.t = "int" THEN int_to_float(b.i) ELSE b.f)

(* Python's == on dicts *)
DictEq(m, n) == DOMAIN m = DOMAIN n /\ \A k \in DOMAIN m : PyEq(m[k], n[k])

----------------------------------------------------------------------------
(* struct: the little-endian, standard-size layout '<' + format chars.     *)

StructOk(bytes) == [kind |-> "bytes", data |-> bytes]

StructError == [kind |-> "struct.error", data |-> <<>>]

OverflowError == [kind |-> "OverflowError", data |-> <<>>]

(* double -> IEEE-754 single, round to nearest even, as 4 little-endian bytes *)
float32_bits(s, E, frac) ==
    <<frac % 256, (frac \div 256) % 256, ((E % 2) * 128) + (frac \div 65536),
      (s * 128) + (E \div 2)>>

pack_float(x) ==
    IF x.hi = 0 THEN StructOk(float32_bits(x.s, 0, 0))
    ELSE IF x.e >= -126
    THEN LET up == x.lo > 2^28 \/ (x.lo = 2^28 /\ x.hi % 2 = 1)
             m0 == x.hi + (IF up THEN 1 ELSE 0)
             m == IF m0 = 2^24 THEN 2^23 ELSE m0
             e == IF m0 = 2^24 THEN x.e + 1 ELSE x.e
         IN  IF e > 127 THEN OverflowError
             ELSE StructOk(float32_bits(x.s, e + 127, m - 2^23))
    ELSE LET shift == -126 - x.e
         IN  IF shift > 25 THEN StructOk(float32_bits(x.s, 0, 0))
             ELSE LET q == x.hi \div 2^shift
                      rem == x.hi % 2^shift
                      half == 2^(shift - 1)
                      up == rem > half \/ (rem = half /\ (x.lo > 0 \/ q % 2 = 1))
                      bits == q + (IF up THEN 1 ELSE 0)
                  IN  StructOk(float32_bits(x.s, bits \div 2^23, bits % 2^23))

(* 4 little-endian bytes of an IEEE-754 single -> double, exact *)
unpack_float(bs) ==
    LET s == bs[4] \div 128
        E == ((bs[4] % 128) * 2) + (bs[3] \div 128)
        frac == ((bs[3] % 128) * 65536) + (bs[2] * 256) + bs[1]
    IN  IF E = 0 /\ frac = 0 THEN Float(s, 0, 0, 0)
        ELSE IF E = 0
        THEN LET k == Log2(frac) IN Float(s, k - 149, frac * 2^(23 - k), 0)
        ELSE IF E = 255 THEN Float(s, 128, 2^23 + frac, 0)   \* inf, nan
        ELSE Float(s, E - 127, 2^23 + frac, 0)

(* DataPacket.datatypes *)
datatypes ==
    [float32 |-> "f", float |-> "f", uint8 |-> "B", uint16 |-> "H", uint32 |-> "I",
     int8 |-> "b", int16 |-> "h", int32 |-> "i", string |-> "s"]

(* struct.calcsize of one format char *)
char_size(c) ==
    CASE c \in {"B", "b", "s"} -> 1
      [] c \in {"H", "h"} -> 2
      [] c \in {"f", "I", "i"} -> 4

(* the range struct accepts for an integer format char; the 32-bit ranges  *)
(* are stated on v \div 2^16 *)
int_in_range(c, v) ==
    CASE c = "B" -> v \in 0..255
      [] c = "b" -> v \in -128..127
      [] c = "H" -> v \in 0..65535
      [] c = "h" -> v \in -32768..32767
      [] c = "I" -> (v \div 65536) \in 0..65535
      [] c = "i" -> (v \div 65536) \in -32768..32767

int_bytes(v, size) == [k \in 1..size |-> (v \div 256^(k - 1)) % 256]

(* struct.pack of one value under one format char *)
pack_field(c, v) ==
    IF c = "f"
    THEN IF v.t = "float" THEN pack_float(v.f)
         ELSE IF v.t = "int" THEN pack_float(int_to_float(v.i))
         ELSE StructError
    ELSE IF c = "s"
    THEN IF v.t = "bytes"
         THEN StructOk(IF Len(v.b) = 0 THEN <<0>> ELSE <<v.b[1]>>)
         ELSE StructError
    ELSE IF v.t = "int" /\ int_in_range(c, v.i)
         THEN StructOk(int_bytes(v.i, char_size(c)))
         ELSE StructError

(* bytes_int with the top byte never taken as a sign                       *)
RECURSIVE bytes_int_unsigned(_, _)
bytes_int_unsigned(bs, signed) ==
    IF Len(bs) = 1 THEN bs[1]
    ELSE bs[1] + (256 * bytes_int_unsigned(Tail(bs), signed))

RECURSIVE bytes_int(_, _)
bytes_int(bs, signed) ==
    \* little-endian bytes -> int: the top byte carries the sign
    IF Len(bs) = 1
    THEN IF signed /\ bs[1] >= 128 THEN bs[1] - 256 ELSE bs[1]
    ELSE bs[1] + (256 * bytes_int(Tail(bs), signed))

(* struct.unpack of one field *)
unpack_field(c, bs) ==
    IF c = "f" THEN PyFloat(unpack_float(bs))
    ELSE IF c = "s" THEN PyBytes(bs)
    ELSE PyInt(bytes_int(bs, c \in {"b", "h", "i"}))

----------------------------------------------------------------------------
(* crc16(data): CRC-16-CCITT, polynomial 0x8408, initial value 0xFFFF.     *)

Bit(a, k) == (a \div 2^k) % 2

(* the positions of the 1-bits of a 16-bit value, lowest first *)
SetBits(b) == SelectSeq([k \in 1..16 |-> k - 1], LAMBDA k : Bit(b, k) = 1)

(* a ^ b on 16-bit values, b given by the positions of its 1-bits: each    *)
(* of those bits of a is inverted                                          *)
RECURSIVE BitXor(_, _, _)
BitXor(a, bits, n) ==
    IF n > Len(bits) THEN a
    ELSE BitXor(IF Bit(a, bits[n]) = 1 THEN a - 2^bits[n] ELSE a + 2^bits[n],
                bits, n + 1)

poly == 33800          \* 0x8408

poly_bits == SetBits(poly)

(* crc_bits with the test on the register's low bit alone                  *)
RECURSIVE crc_bits_blind(_, _, _)
crc_bits_blind(crc, cur_byte, rounds) ==
    IF rounds = 0 THEN crc
    ELSE crc_bits_blind(IF (crc % 2) # 0
                        THEN BitXor(crc \div 2, poly_bits, 1)
                        ELSE crc \div 2,
                        cur_byte \div 2, rounds - 1)

RECURSIVE crc_bits(_, _, _)
crc_bits(crc, cur_byte, rounds) ==
    \* for _ in range(0, 8)
    IF rounds = 0 THEN crc
    ELSE crc_bits(IF (crc % 2) # (cur_byte % 2)
                  THEN BitXor(crc \div 2, poly_bits, 1)
                  ELSE crc \div 2,
                  cur_byte \div 2, rounds - 1)

RECURSIVE crc_bytes(_, _, _)
crc_bytes(crc, data, n) ==
    \* for b in data: the bytes of data from the n-th on
    IF n > Len(data) THEN crc
    ELSE LET next == crc_bits(crc, data[n] % 256, 8)
         IN  \* the running crc is a 16-bit value: the test evaluates it here,
             \* before the next byte, and always holds
             IF next >= 0 THEN crc_bytes(next, data, n + 1) ELSE next

crc16_value(data) ==
    \* crc = ~crc & 0xFFFF; crc = (crc << 8) | ((crc >> 8) & 0xFF); crc & 0xFFFF
    LET crc == 65535 - crc_bytes(65535, data, 1)
    IN  ((crc * 256) % 65536) + ((crc \div 256) % 256)

(* struct.pack('=H', ...): two bytes in the platform's byte order *)
crc16(data, order) ==
    LET v == crc16_value(data)
    IN  IF order = "little" THEN <<v % 256, v \div 256>> ELSE <<v \div 256, v % 256>>

----------------------------------------------------------------------------
(* The record's state while only the engine is exercised, and the engine's *)
(* while only the record is.                                               *)

PCall(op, argkind, ret, wasInit, changed) ==
    [op |-> op, argkind |-> argkind, ret |-> ret, wasInit |-> wasInit,
     changed |-> changed]

NoPacked == [buf |-> <<>>, of |-> [init |-> FALSE, map |-> [k \in {} |-> 0]]]

PacketIdle ==
    /\ definition = <<>>
    /\ values = [init |-> FALSE, map |-> [k \in {} |-> 0]]
    /\ byteorder = "little"
    /\ plast = PCall("", "", [kind |-> "None", msg |-> "", data |-> <<>>,
                              map |-> [k \in {} |-> 0]], FALSE, FALSE)
    /\ packed = NoPacked
    /\ origin = ""

StreamIdle ==
    /\ stream = <<>>
    /\ pos = 0
    /\ closed = FALSE
    /\ callbacks = <<>>
    /\ last = [op |-> "new", arg |-> <<>>, max_bytes |-> 0, from |-> 0,
               ret |-> [kind |-> "None", data |-> <<>>], outcome |-> "", nreads |-> 0,
               wrote |-> <<>>, calls |-> <<>>]
    /\ lastWrite = [at |-> -1, data |-> <<>>]
    /\ run = [start |-> 0, got |-> <<>>]
    /\ nwrites = 0

LoopIdle ==
    /\ loop_running = FALSE
    /\ threads = <<>>
    /\ delivered = <<>>

----------------------------------------------------------------------------
(* The engine as a state machine.                                          *)

Payloads ==
    SeqsUpTo(PayloadBytes, MaxPayload)
    \cup {[i \in 1..LongPayload |-> 1], [i \in 1..(LongPayload + 1) |-> 1]}

InitStreams == SeqsUpTo(PayloadBytes, MaxGarbage)

NoRet == [kind |-> "None", data |-> <<>>]

Call(op, arg, max_bytes, from, ret, outcome, nreads, wrote, calls) ==
    [op |-> op, arg |-> arg, max_bytes |-> max_bytes, from |-> from, ret |-> ret,
     outcome |-> outcome, nreads |-> nreads, wrote |-> wrote, calls |-> calls]

NoCall == Call("new", <<>>, 0, 0, NoRet, "", 0, <<>>, <<>>)

NoWrite == [at |-> -1, data |-> <<>>]

NoRun == [start |-> 0, got |-> <<>>]

StreamInit ==
    /\ stream \in InitStreams
    /\ pos = 0
    /\ closed = FALSE
    /\ callbacks = <<>>
    /\ last = NoCall
    /\ lastWrite = NoWrite
    /\ run = NoRun
    /\ nwrites = 0

(* stream.seek(p): the test rewinds the buffer between calls. *)
Seek(p) ==
    /\ ~closed
    /\ p \in 0..Len(stream)
    /\ pos' = p
    /\ run' = [start |-> p, got |-> <<>>]
    /\ last' = Call("seek", <<>>, 0, 0, NoRet, "", 0, <<>>, <<>>)
    /\ UNCHANGED <<stream, closed, callbacks, lastWrite, nwrites, pvars, lvars>>

(* StreamCOBS.write(data) *)
Write(data) ==
    LET encoded_data == frame(data)
    IN  /\ nwrites < MaxWrites
        /\ pos + Len(encoded_data) <= MaxStream
        /\ nwrites' = nwrites + 1
        /\ IF closed
           THEN \* the transport's write raises; nothing is written
                /\ last' = Call("write", data, 0, pos,
                                [kind |-> "ValueError", data |-> <<>>], "", 0,
                                <<encoded_data>>, <<>>)
                /\ UNCHANGED <<stream, pos, lastWrite, run>>
           ELSE /\ stream' = stream_write(stream, pos, encoded_data)
                /\ pos' = pos + Len(encoded_data)
                /\ last' = Call("write", data, 0, pos,
                                [kind |-> "int", data |-> <<Len(encoded_data)>>], "", 0,
                                <<encoded_data>>, <<>>)
                /\ lastWrite' = [at |-> pos, data |-> data]
                /\ run' = [start |-> pos', got |-> <<>>]
        /\ UNCHANGED <<closed, callbacks, pvars, lvars>>

(* StreamCOBS.read(max_bytes) *)
Read(max_bytes) ==
    LET r == read(stream, pos, closed, max_bytes)
    IN  /\ pos' = r.pos
        /\ last' = Call("read", <<>>, max_bytes, pos,
                        [kind |-> r.kind, data |-> r.data], r.outcome, r.nreads,
                        <<>>, <<>>)
        /\ run' = IF r.kind = "data" THEN [run EXCEPT !.got = Append(@, r.data)] ELSE run
        /\ UNCHANGED <<stream, closed, callbacks, lastWrite, nwrites, pvars, lvars>>

(* dispatch with the listeners taken last registered first                 *)
dispatch_reversed(cbs, data, raisesAt) ==
    LET n == IF raisesAt \in 1..Len(cbs) THEN raisesAt ELSE Len(cbs)
    IN  [i \in 1..n |-> <<cbs[Len(cbs) + 1 - i], data>>]

(* The listeners update() calls: for cb in self.callbacks: cb(data), where *)
(* the raisesAt-th call raises (0: none does).                             *)
dispatch(cbs, data, raisesAt) ==
    LET n == IF raisesAt \in 1..Len(cbs) THEN raisesAt ELSE Len(cbs)
    IN  [i \in 1..n |-> <<cbs[i], data>>]

(* StreamCOBS.update() *)
Update(raisesAt) ==
    LET r == read(stream, pos, closed, DefaultMaxBytes)
        fires == r.kind = "data" /\ Len(r.data) > 0
        calls == IF fires THEN dispatch(callbacks, r.data, raisesAt) ELSE <<>>
        ret == IF r.kind = "DecodeError" THEN DecodeError
               ELSE IF fires /\ raisesAt \in 1..Len(callbacks)
               THEN [kind |-> "ListenerError", data |-> <<>>]
               ELSE NoRet
    IN  /\ raisesAt <= Len(callbacks)
        /\ pos' = r.pos
        /\ last' = Call("update", r.data, DefaultMaxBytes, pos, ret, r.outcome,
                        r.nreads, <<>>, calls)
        /\ run' = IF r.kind = "data" THEN [run EXCEPT !.got = Append(@, r.data)] ELSE run
        /\ UNCHANGED <<stream, closed, callbacks, lastWrite, nwrites, pvars, lvars>>

(* StreamCOBS.add_listener(cb) *)
AddListener(cb) ==
    /\ Len(callbacks) < MaxListeners
    /\ callbacks' = Append(callbacks, cb)
    /\ last' = Call("add_listener", <<>>, 0, 0, NoRet, "", 0, <<>>, <<>>)
    /\ UNCHANGED <<stream, pos, closed, lastWrite, run, nwrites, pvars, lvars>>

(* StreamCOBS.close() *)
Close ==
    /\ ~closed
    /\ closed' = TRUE
    /\ last' = Call("close", <<>>, 0, 0, NoRet, "", 0, <<>>, <<>>)
    /\ UNCHANGED <<stream, pos, callbacks, lastWrite, run, nwrites, pvars, lvars>>

(* Spec: frames are written, the buffer is rewound to its start or to the  *)
(* last frame's start, and frames are read back.                           *)
Init == StreamInit /\ PacketIdle /\ LoopIdle

Next ==
    \/ \E p \in {0, lastWrite.at} : Seek(p)
    \/ \E data \in Payloads : Write(data)
    \/ \E max_bytes \in MaxBytesChoices : Read(max_bytes)
    \/ Close

Spec == Init /\ [][Next]_vars

(* SpecUpdate: listeners are registered and update() dispatches to them.   *)
UpdatePayloads == {<<>>, <<0>>, <<1>>, <<0, 1, 2, 3>>}

UpdateInit == StreamInit /\ PacketIdle /\ LoopIdle

UpdateNext ==
    \/ Seek(0)
    \/ \E data \in UpdatePayloads : Write(data)
    \/ \E raisesAt \in 0..MaxListeners : Update(raisesAt)
    \/ \E cb \in Listeners : AddListener(cb)

SpecUpdate == UpdateInit /\ [][UpdateNext]_vars

(* SpecResync: the reader is attached in the middle of a frame.  The       *)
(* transport holds the rest of a frame a peer's write() produced, from     *)
(* some byte after its opening delimiter on, then the complete frames of   *)
(* the peer's next writes; read() is called again and again.               *)
RECURSIVE FrameRuns(_)
FrameRuns(n) ==
    IF n = 0 THEN {<<>>}
    ELSE LET shorter == FrameRuns(n - 1)
         IN  shorter \cup {s \o frame(x) : s \in {r \in shorter : r # <<>> \/ n = 1},
                                          x \in Payloads \ {<<>>}}

TruncatedFrames ==
    {SubSeq(frame(x), k, Len(frame(x))) : x \in Payloads, k \in 2..(LongPayload + 3)}
    \ {<<>>, <<0>>}

ResyncStreams == {t \o s : t \in TruncatedFrames, s \in FrameRuns(MaxFrames) \ {<<>>}}

ResyncInit ==
    /\ stream \in ResyncStreams
    /\ pos = 0
    /\ closed = FALSE
    /\ callbacks = <<>>
    /\ last = NoCall
    /\ lastWrite = NoWrite
    /\ run = NoRun
    /\ nwrites = 0
    /\ PacketIdle
    /\ LoopIdle

ResyncNext == Read(DefaultMaxBytes)

SpecResync == ResyncInit /\ [][ResyncNext]_vars

(* SpecSequence: non-empty payloads are written one after the other onto   *)
(* an empty transport, the buffer is rewound to its start, and read() is   *)
(* called again and again.                                                 *)
NonEmptyPayloads == Payloads \ {<<>>}

SequenceInit == StreamIdle /\ PacketIdle /\ LoopIdle

SequenceNext ==
    \/ /\ last.op \in {"new", "write"}
       /\ \E data \in NonEmptyPayloads : Write(data)
    \/ /\ last.op = "write"
       /\ Seek(0)
    \/ /\ last.op \in {"seek", "read"}
       /\ Read(DefaultMaxBytes)

SpecSequence == SequenceInit /\ [][SequenceNext]_vars

----------------------------------------------------------------------------
(* DataPacket.                                                             *)

Tags == <<"float32", "uint8", "uint16", "uint32", "int8", "int16", "int32",
          "string", "float">>

FieldNames == <<"cxthrottle", "cxreqgear", "cxbrake", "cxmode">>

(* the schemas of the model: n consecutive tags starting at the k-th, so   *)
(* that every tag occurs at every position; Schema(1, 2) is the test's     *)
Schema(k, n) ==
    [i \in 1..n |-> [name |-> FieldNames[i], type |-> Tags[((k + i - 2) % Len(Tags)) + 1]]]

BadSchema == <<[name |-> "foobar", type |-> "blahtype"]>>

Schemas == {Schema(k, n) : k \in 1..Len(Tags), n \in 1..MaxFields} \cup {BadSchema}

(* DataPacket.__init__: every type tag is in datatypes *)
valid_definition(def) == \A i \in 1..Len(def) : def[i].type \in DOMAIN datatypes

fields(def) == [i \in 1..Len(def) |-> def[i].name]

field_names(def) == {def[i].name : i \in 1..Len(def)}

fmt(def) == [i \in 1..Len(def) |-> datatypes[def[i].type]]

RECURSIVE SumSizes(_)
SumSizes(chars) == IF chars = <<>> THEN 0 ELSE char_size(Head(chars)) + SumSizes(Tail(chars))

calcsize(def) == SumSizes(fmt(def))

EmptyMap == [k \in {} |-> PyInt(0)]

None == [init |-> FALSE, map |-> EmptyMap]

Dict(m) == [init |-> TRUE, map |-> m]

Ret(kind, msg, data, map) == [kind |-> kind, msg |-> msg, data |-> data, map |-> map]

RetNone == Ret("None", "", <<>>, EmptyMap)

ValueError(msg) == Ret("ValueError", msg, <<>>, EmptyMap)

(* Python values *)
F_1_0 == Float(0, 0, 8388608, 0)              \* 1.0
F_0_1 == Float(0, -4, 13421772, 429496730)    \* 0.1

(* the values offered for a field: inside and outside the range or the     *)
(* precision of its wire type, and one of another Python type              *)
Candidates(c) ==
    IF c = "f" THEN {PyFloat(F_1_0), PyFloat(F_0_1), PyInt(4)}
    ELSE IF c = "s" THEN {PyBytes(<<97>>), PyBytes(<<97, 98>>), PyInt(4)}
    ELSE {PyInt(4), PyInt(-2), PyInt(300)}

(* arguments of init(): mappings, sequences, and something else *)
Mapping(m) == [kind |-> "mapping", map |-> m, seq |-> <<>>]

Sequence(s) == [kind |-> "sequence", map |-> EmptyMap, seq |-> s]

Other == [kind |-> "other", map |-> EmptyMap, seq |-> <<>>]

RECURSIVE SeqMaps(_, _)
SeqMaps(def, n) ==
    IF n = 0 THEN {<<>>}
    ELSE {Append(s, v) : s \in SeqMaps(def, n - 1), v \in Candidates(fmt(def)[n])}

TotalMaps(def) ==
    {[k \in field_names(def) |-> s[CHOOSE i \in 1..Len(def) : def[i].name = k]] :
        s \in SeqMaps(def, Len(def))}

Restrict(m, keys) == [k \in keys |-> m[k]]

(* a value each format char packs without loss *)
InKind(c) ==
    IF c = "f" THEN PyFloat(F_1_0) ELSE IF c = "s" THEN PyBytes(<<97>>) ELSE PyInt(4)

InKindMap(def) ==
    [k \in field_names(def) |->
        InKind(fmt(def)[CHOOSE i \in 1..Len(def) : def[i].name = k])]

InitArgs(def) ==
    LET total == TotalMaps(def)
    IN  {Mapping(m) : m \in total}
        \cup {Mapping(Restrict(InKindMap(def), ks)) : ks \in SUBSET field_names(def)}
        \cup {Mapping([k \in {"badfield", "foo"} |-> PyInt(20)])}
        \cup {Sequence([i \in 1..Len(def) |-> v]) : v \in Candidates(fmt(def)[1])}
        \cup {Sequence([i \in 1..(Len(def) - 1) |-> PyInt(4)]),
              Sequence([i \in 1..(Len(def) + 1) |-> PyInt(4)])}
        \cup {Other}

(* DataPacket.init(values): the new value map, or the error raised *)
init(def, arg) ==
    IF arg.kind = "mapping"
    THEN IF \A k \in DOMAIN arg.map : k \in field_names(def)
         THEN [ok |-> TRUE, values |-> Dict(arg.map), ret |-> RetNone]
         ELSE [ok |-> FALSE, values |-> None, ret |-> ValueError("Key name mismatch")]
    ELSE IF arg.kind = "sequence"
    THEN IF Len(arg.seq) = Len(fields(def))
         THEN [ok |-> TRUE,
               values |-> Dict([k \in field_names(def) |->
                                arg.seq[CHOOSE i \in 1..Len(def) : def[i].name = k]]),
               ret |-> RetNone]
         ELSE [ok |-> FALSE, values |-> None,
               ret |-> ValueError("Number of values does not match number of fields")]
    ELSE [ok |-> FALSE, values |-> None,
          ret |-> ValueError("Input to init() should be either a sequence or a mapping")]

(* struct.pack(self.fmt, *values): the first field that fails raises *)
RECURSIVE struct_pack(_, _)
struct_pack(chars, vals) ==
    IF chars = <<>> THEN StructOk(<<>>)
    ELSE LET head == pack_field(Head(chars), Head(vals))
         IN  IF head.kind # "bytes" THEN head
             ELSE LET rest == struct_pack(Tail(chars), Tail(vals))
                  IN  IF rest.kind # "bytes" THEN rest
                      ELSE StructOk(head.data \o rest.data)

(* DataPacket.pack() on the value map v *)
pack(def, v, order) ==
    IF ~v.init THEN ValueError("Data packet not initialized!")
    ELSE IF \E k \in field_names(def) : k \notin DOMAIN v.map
    THEN Ret("KeyError", "", <<>>, EmptyMap)
    ELSE LET data == struct_pack(fmt(def), [i \in 1..Len(def) |-> v.map[def[i].name]])
         IN  IF data.kind # "bytes" THEN Ret(data.kind, "", <<>>, EmptyMap)
             ELSE Ret("bytes", "", data.data \o crc16(data.data, order), EmptyMap)

(* struct.unpack(self.fmt, data), data of the right length *)
RECURSIVE struct_unpack(_, _)
struct_unpack(chars, data) ==
    IF chars = <<>> THEN <<>>
    ELSE LET n == char_size(Head(chars))
         IN  <<unpack_field(Head(chars), SubSeq(data, 1, n))>>
             \o struct_unpack(Tail(chars), SubSeq(data, n + 1, Len(data)))

(* unpack with the empty value map made before the checksum is compared    *)
unpack_eager(def, v, buffer, order) ==
    LET crc == IF Len(buffer) < 2 THEN buffer
               ELSE SubSeq(buffer, Len(buffer) - 1, Len(buffer))
        data == IF Len(buffer) < 2 THEN <<>> ELSE SubSeq(buffer, 1, Len(buffer) - 2)
        w == IF v.init THEN v ELSE Dict(EmptyMap)
    IN  IF crc16(data, order) # crc
        THEN [values |-> w, ret |-> ValueError("CRC checksum failed!")]
        ELSE IF Len(data) # calcsize(def)
        THEN [values |-> w, ret |-> Ret("struct.error", "", <<>>, EmptyMap)]
        ELSE LET decoded == struct_unpack(fmt(def), data)
                 merged == [k \in (DOMAIN v.map) \cup field_names(def) |->
                              IF k \in field_names(def)
                              THEN decoded[CHOOSE i \in 1..Len(def) : def[i].name = k]
                              ELSE v.map[k]]
             IN  [values |-> Dict(merged), ret |-> Ret("dict", "", <<>>, merged)]

(* DataPacket.unpack(buffer): the new value map and what is returned *)
unpack(def, v, buffer, order) ==
    LET \* crc = buffer[-2:]; data = buffer[:-2]
        crc == IF Len(buffer) < 2 THEN buffer
               ELSE SubSeq(buffer, Len(buffer) - 1, Len(buffer))
        data == IF Len(buffer) < 2 THEN <<>> ELSE SubSeq(buffer, 1, Len(buffer) - 2)
    IN  IF crc16(data, order) # crc
        THEN [values |-> v, ret |-> ValueError("CRC checksum failed!")]
        ELSE IF Len(data) # calcsize(def)
        THEN [values |-> v, ret |-> Ret("struct.error", "", <<>>, EmptyMap)]
        ELSE LET decoded == struct_unpack(fmt(def), data)
                 merged == [k \in (DOMAIN v.map) \cup field_names(def) |->
                              IF k \in field_names(def)
                              THEN decoded[CHOOSE i \in 1..Len(def) : def[i].name = k]
                              ELSE v.map[k]]
             IN  [values |-> Dict(merged), ret |-> Ret("dict", "", <<>>, merged)]

----------------------------------------------------------------------------
(* The record as a state machine.                                          *)

PacketInit ==
    /\ definition \in Schemas
    /\ values = None
    /\ byteorder \in {"little", "big"}
    /\ plast = PCall("new", "",
                     IF valid_definition(definition) THEN RetNone
                     ELSE ValueError("Invalid datatype"), FALSE, FALSE)
    /\ packed = NoPacked
    /\ origin = ""

(* the constructor raised: there is no record to call *)
constructed == valid_definition(definition)

(* DataPacket.init(values) *)
InitValues(arg) ==
    LET r == init(definition, arg)
    IN  /\ constructed
        /\ values' = IF r.ok THEN r.values ELSE values
        /\ plast' = PCall("init", arg.kind, r.ret, values.init, values' # values)
        /\ packed' = NoPacked
        /\ origin' = IF r.ok THEN arg.kind ELSE origin
        /\ UNCHANGED <<definition, byteorder, svars, lvars>>

(* set_field with a record that has no values given an empty value map    *)
set_field_autoinit(def, v, field_name, value) ==
    IF field_name \notin field_names(def)
    THEN [values |-> v, ret |-> ValueError("Key name mismatch")]
    ELSE [values |-> Dict([k \in (DOMAIN v.map) \cup {field_name} |->
                             IF k = field_name THEN value ELSE v.map[k]]),
          ret |-> RetNone]

(* DataPacket.set_field(field_name, value) *)
set_field(def, v, field_name, value) ==
    IF ~v.init
    THEN [values |-> v, ret |-> ValueError("Data packet not initialized!")]
    ELSE IF field_name \notin field_names(def)
    THEN [values |-> v, ret |-> ValueError("Key name mismatch")]
    ELSE [values |-> Dict([k \in (DOMAIN v.map) \cup {field_name} |->
                             IF k = field_name THEN value ELSE v.map[k]]),
          ret |-> RetNone]

SetField(field_name, value) ==
    LET r == set_field(definition, values, field_name, value)
    IN  /\ constructed
        /\ values' = r.values
        /\ plast' = PCall("set_field", field_name, r.ret, values.init, values' # values)
        /\ packed' = NoPacked
        /\ origin' = IF r.ret.kind = "None" THEN "set_field" ELSE origin
        /\ UNCHANGED <<definition, byteorder, svars, lvars>>

(* DataPacket.pack(values=None): the arguments pack() is given *)
PackArgs(def) ==
    {Mapping(InKindMap(def)),
     Sequence([i \in 1..Len(def) |-> InKind(fmt(def)[i])]),
     Mapping([k \in {"badfield", "foo"} |-> PyInt(20)]),
     Other}

NoArg == [kind |-> "none", map |-> EmptyMap, seq |-> <<>>]

Pack(arg) ==
    LET i == init(definition, arg)
        v == IF arg.kind # "none" /\ i.ok THEN i.values ELSE values
        ret == IF arg.kind # "none" /\ ~i.ok THEN i.ret
               ELSE pack(definition, v, byteorder)
    IN  /\ constructed
        /\ values' = v
        /\ plast' = PCall("pack", arg.kind, ret, values.init, values' # values)
        /\ packed' = IF ret.kind = "bytes" THEN [buf |-> ret.data, of |-> v]
                     ELSE NoPacked
        /\ origin' = IF arg.kind # "none" /\ i.ok THEN arg.kind ELSE origin
        /\ UNCHANGED <<definition, byteorder, svars, lvars>>

(* one bit of one byte of a buffer inverted *)
FlipBit(buffer, i, bit) ==
    [buffer EXCEPT ![i] = IF (@ \div 2^bit) % 2 = 1 THEN @ - 2^bit ELSE @ + 2^bit]

(* a buffer whose payload is one byte short of the buffer's, with the     *)
(* checksum of that shorter payload                                        *)
Shortened(buffer, order) ==
    LET data == SubSeq(buffer, 1, Len(buffer) - 3)
    IN  data \o crc16(data, order)

(* DataPacket.unpack(buffer), of the buffer pack() last returned or, right *)
(* after pack() or on a new record, of that buffer with one bit of its     *)
(* payload, or of its trailer, inverted, or of a shorter payload with its  *)
(* own checksum                                                            *)
Unpack(buffer, argkind) ==
    LET r == unpack(definition, values, buffer, byteorder)
    IN  /\ constructed
        /\ values' = r.values
        /\ plast' = PCall("unpack", argkind, r.ret, values.init, values' # values)
        /\ origin' = IF r.ret.kind = "dict" THEN "unpack" ELSE origin
        /\ UNCHANGED <<definition, byteorder, packed, svars, lvars>>

(* a new DataPacket(definition) of the same schema, as the receiving side  *)
(* of a buffer holds: values is None                                       *)
Fresh ==
    /\ constructed
    /\ values.init
    /\ values' = None
    /\ plast' = PCall("new", "", RetNone, FALSE, FALSE)
    /\ origin' = ""
    /\ UNCHANGED <<definition, byteorder, packed, svars, lvars>>

(* SpecPacket: the calls on a record; a record whose constructor raised    *)
(* does not exist, and nothing is called on it                             *)
PacketSpecInit == PacketInit /\ StreamIdle /\ LoopIdle

PacketNext ==
    \/ constructed /\ \E arg \in InitArgs(definition) : InitValues(arg)
    \/ constructed /\ \E i \in 1..Len(definition) :
          \E value \in Candidates(fmt(definition)[i]) :
             SetField(definition[i].name, value)
    \/ SetField("badfield", PyInt(1))
    \/ constructed /\ \E arg \in {NoArg} \cup PackArgs(definition) : Pack(arg)
    \/ packed.buf # <<>> /\ Unpack(packed.buf, "packed")
    \/ \E i \in 1..(Len(packed.buf) - 2), bit \in 0..7 :
          /\ plast.op \in {"pack", "new"}
          /\ Unpack(FlipBit(packed.buf, i, bit), "payload bit flipped")
    \/ \E i \in (Len(packed.buf) - 1)..Len(packed.buf), bit \in 0..7 :
          /\ plast.op \in {"pack", "new"} /\ i >= 1
          /\ Unpack(FlipBit(packed.buf, i, bit), "trailer bit flipped")
    \/ /\ plast.op \in {"pack", "new"}
       /\ Len(packed.buf) >= 3
       /\ Unpack(Shortened(packed.buf, byteorder), "payload shortened")
    \/ Fresh

SpecPacket == PacketSpecInit /\ [][PacketNext]_vars

----------------------------------------------------------------------------
(* payloads that are no record of the channel's schema: the test's bytes,  *)
(* and an empty payload with its checksum                                  *)
RawPayloads(order) == {<<0, 1, 2, 3>>, crc16(<<>>, order)}

(* PacketCOBS: a StreamCOBS driver over the transport and one DataPacket   *)
(* of the channel's schema, self._packet, whose value map is `values`.     *)

(* copy as DataPacket(self.definition): the schema without the values     *)
copy_schema_only(def, v) == None

(* DataPacket.copy(): DataPacket(self.definition, self.values), which      *)
(* calls init(values) unless values is None                                *)
copy(def, v) == IF v.init THEN init(def, Mapping(v.map)).values ELSE None

(* unpack_from with the value map dropped when the driver has no frame     *)
unpack_from_reset(def, v, data, order) ==
    IF data.kind = "data" THEN unpack(def, v, data.data, order)
    ELSE [values |-> None, ret |-> RetNone]

(* DataPacket.unpack_from(stream), given what stream.read() returned       *)
unpack_from(def, v, data, order) ==
    IF data.kind = "data" THEN unpack(def, v, data.data, order)
    ELSE [values |-> v, ret |-> RetNone]

(* a DataPacket a call returns: its value map, or its having none          *)
RetPacket(v) == Ret("DataPacket", IF v.init THEN "" ELSE "None", <<>>, v.map)

(* a value each format char packs with a loss, or not at all when the     *)
(* field is unsigned                                                       *)
OffKind(c) ==
    IF c = "f" THEN PyFloat(F_0_1) ELSE IF c = "s" THEN PyBytes(<<97, 98>>)
    ELSE PyInt(-2)

OffKindMap(def) ==
    [k \in field_names(def) |->
        OffKind(fmt(def)[CHOOSE i \in 1..Len(def) : def[i].name = k])]

(* the records write() is given, as DataPacket(packet_def, values): every  *)
(* field with a value its type holds, every field with one it does not,    *)
(* every field with the same int, one field missing, and no values         *)
WriteRecords(def) ==
    {Dict(InKindMap(def)), Dict(OffKindMap(def)),
     Dict([k \in field_names(def) |-> PyInt(4)]),
     Dict(Restrict(InKindMap(def), {def[1].name})), None}

ChannelInit ==
    /\ definition \in {d \in Schemas : valid_definition(d)}
    /\ values = None
    /\ byteorder \in {"little", "big"}
    /\ plast = PCall("new", "", RetNone, FALSE, FALSE)
    /\ packed = NoPacked
    /\ origin = ""
    /\ StreamIdle
    /\ LoopIdle

(* PacketCOBS.write(packet): self.driver.write(packet.pack())              *)
ChannelWrite(v) ==
    LET buffer == pack(definition, v, byteorder)
        encoded_data == frame(buffer.data)
        raises == buffer.kind # "bytes" \/ closed
    IN  /\ nwrites < MaxWrites
        /\ pos + Len(encoded_data) <= MaxChannelStream
        /\ nwrites' = nwrites + 1
        /\ plast' = PCall("write", "", IF buffer.kind # "bytes" THEN buffer
                                       ELSE IF closed THEN ValueError("I/O operation on closed file.")
                                       ELSE RetNone,
                          values.init, FALSE)
        /\ packed' = IF raises THEN NoPacked ELSE [buf |-> buffer.data, of |-> v]
        /\ IF buffer.kind # "bytes"
           THEN \* pack() raised: the driver is not called
                UNCHANGED <<stream, pos, last, lastWrite, run>>
           ELSE IF closed
           THEN /\ last' = Call("write", buffer.data, 0, pos,
                                [kind |-> "ValueError", data |-> <<>>], "", 0,
                                <<encoded_data>>, <<>>)
                /\ UNCHANGED <<stream, pos, lastWrite, run>>
           ELSE /\ stream' = stream_write(stream, pos, encoded_data)
                /\ pos' = pos + Len(encoded_data)
                /\ last' = Call("write", buffer.data, 0, pos,
                                [kind |-> "int", data |-> <<Len(encoded_data)>>], "", 0,
                                <<encoded_data>>, <<>>)
                /\ lastWrite' = [at |-> pos, data |-> buffer.data]
                /\ run' = [start |-> pos', got |-> <<>>]
        /\ UNCHANGED <<closed, callbacks, definition, values, byteorder, origin, lvars>>

(* PacketCOBS.read(): self._packet.unpack_from(self.driver), then          *)
(* self._packet.copy()                                                     *)
ChannelRead ==
    LET r == read(stream, pos, closed, DefaultMaxBytes)
        u == unpack_from(definition, values, r, byteorder)
        ret == IF r.kind = "DecodeError" THEN Ret("DecodeError", "", <<>>, EmptyMap)
               ELSE IF u.ret.kind \in {"ValueError", "struct.error"} THEN u.ret
               ELSE RetPacket(copy(definition, u.values))
    IN  /\ pos' = r.pos
        /\ last' = Call("read", <<>>, DefaultMaxBytes, pos,
                        [kind |-> r.kind, data |-> r.data], r.outcome, r.nreads,
                        <<>>, <<>>)
        /\ run' = IF r.kind = "data" THEN [run EXCEPT !.got = Append(@, r.data)] ELSE run
        /\ values' = u.values
        /\ plast' = PCall("read", "", ret, values.init, values' # values)
        /\ origin' = IF u.ret.kind = "dict" THEN "unpack" ELSE origin
        /\ UNCHANGED <<stream, closed, callbacks, lastWrite, nwrites, definition,
                       byteorder, packed, lvars>>

(* SpecChannel: records are written through the channel, payloads that     *)
(* are no record are written by an engine on the same transport, the       *)
(* buffer is rewound, and records are read through the channel.            *)
ChannelNext ==
    \/ \E v \in WriteRecords(definition) : ChannelWrite(v)
    \/ \E data \in RawPayloads(byteorder) : Write(data)
    \/ \E p \in {0, lastWrite.at} : Seek(p)
    \/ ChannelRead
    \/ Close

SpecChannel == ChannelInit /\ [][ChannelNext]_vars

----------------------------------------------------------------------------
(* The background loop.  loop_thread() starts a thread that runs           *)
(* loop_start(); the thread and the caller share the engine and the        *)
(* transport.  A step of a thread is one test of self.loop_running, one    *)
(* _read_stream(1), one except handler, or one listener call.              *)

(* a thread at the test of `while self.loop_running`; `listeners` is       *)
(* history: the number of listeners registered when it was started         *)
NewThread(n) ==
    [pc |-> "while", i |-> 0, raw_data |-> <<>>, data |-> <<>>, k |-> 0,
     caught |-> FALSE, listeners |-> n]

(* loop_start with no try: an exception ends the thread                   *)
BackToWhileUncaught(th, raised) ==
    [th EXCEPT !.pc = IF raised THEN "exited" ELSE "while", !.i = 0,
               !.raw_data = <<>>, !.data = <<>>, !.k = 0, !.caught = @ \/ raised]

(* update() has returned, or has raised into loop_start's except clause,   *)
(* which prints and goes back to the test                                  *)
BackToWhile(th, raised) ==
    [th EXCEPT !.pc = "while", !.i = 0, !.raw_data = <<>>, !.data = <<>>, !.k = 0,
               !.caught = @ \/ raised]

(* a frame the codec rejects: the code byte 3 announces two bytes, one     *)
(* follows                                                                 *)
Malformed == <<0, 3, 1, 0>>

(* the payloads of the frames the transport holds when the loop starts     *)
LoopFramePayloads == {<<1>>, <<0, 1>>}

LoopStreams ==
    {<<>>, Malformed, frame(<<1>>) \o frame(<<0>>)}
    \cup {frame(x) : x \in LoopFramePayloads}
    \cup {Malformed \o frame(x) : x \in LoopFramePayloads}

LoopListeners == {"cb1"}

LoopInit ==
    /\ stream \in LoopStreams
    /\ pos = 0
    /\ closed = FALSE
    /\ callbacks = <<>>
    /\ last = NoCall
    /\ lastWrite = NoWrite
    /\ run = NoRun
    /\ nwrites = 0
    /\ PacketIdle
    /\ LoopIdle

(* the caller is between two calls, not inside loop_thread() or            *)
(* loop_stop()                                                             *)
CallerIdle == last.outcome \notin {"starting", "stopping"}

(* loop_thread(): self.loop_running = True ...                             *)
LoopThreadFlag ==
    /\ CallerIdle
    /\ Len(threads) < MaxThreads
    /\ loop_running' = TRUE
    /\ last' = Call("loop_thread", <<>>, 0, 0, NoRet, "starting", 0, <<>>, <<>>)
    /\ UNCHANGED <<stream, pos, closed, callbacks, lastWrite, run, nwrites, pvars,
                   threads, delivered>>

(* ... t = threading.Thread(target=self.loop_start); t.start()             *)
LoopThreadStart ==
    /\ last.op = "loop_thread"
    /\ last.outcome = "starting"
    /\ threads' = Append(threads, NewThread(Len(callbacks)))
    /\ last' = Call("loop_thread", <<>>, 0, 0, NoRet, "", 0, <<>>, <<>>)
    /\ UNCHANGED <<stream, pos, closed, callbacks, lastWrite, run, nwrites, pvars,
                   loop_running, delivered>>

(* loop_stop(): self.loop_running = False ...                              *)
LoopStopFlag ==
    /\ CallerIdle
    /\ loop_running' = FALSE
    /\ last' = Call("loop_stop", <<>>, 0, 0, NoRet, "stopping", 0, <<>>, <<>>)
    /\ UNCHANGED <<stream, pos, closed, callbacks, lastWrite, run, nwrites, pvars,
                   threads, delivered>>

(* loop_stop() that leaves the transport open                             *)
LoopStopKeepsOpen ==
    /\ last.op = "loop_stop"
    /\ last.outcome = "stopping"
    /\ last' = Call("loop_stop", <<>>, 0, 0, NoRet, "", 0, <<>>, <<>>)
    /\ UNCHANGED <<stream, pos, closed, callbacks, lastWrite, run, nwrites, pvars,
                   loop_running, threads, delivered>>

(* ... self.close()                                                        *)
LoopStopClose ==
    /\ last.op = "loop_stop"
    /\ last.outcome = "stopping"
    /\ closed' = TRUE
    /\ last' = Call("loop_stop", <<>>, 0, 0, NoRet, "", 0, <<>>, <<>>)
    /\ UNCHANGED <<stream, pos, callbacks, lastWrite, run, nwrites, pvars,
                   loop_running, threads, delivered>>

(* loop_start: while self.loop_running                                     *)
LoopTest(t) ==
    /\ t \in DOMAIN threads
    /\ threads[t].pc = "while"
    /\ threads' = [threads EXCEPT ![t].pc = IF loop_running THEN "sync" ELSE "exited"]
    /\ UNCHANGED <<svars, pvars, loop_running, delivered>>

(* read(): one attempt of the loop that looks for the start delimiter.  On *)
(* a closed transport every attempt left raises and is passed over, at the *)
(* end of the stream every attempt left reads b'': these are taken in one  *)
(* step, and read() returns None.                                          *)
SyncStep(t) ==
    /\ t \in DOMAIN threads
    /\ threads[t].pc = "sync"
    /\ LET th == threads[t]
           start_byte == stream_read(stream, pos, 1)
       IN  IF th.i >= DefaultMaxBytes - SyncSlack \/ closed \/ pos >= Len(stream)
           THEN /\ threads' = [threads EXCEPT ![t] = BackToWhile(th, FALSE)]
                /\ pos' = pos
           ELSE /\ pos' = pos + 1
                /\ threads' = [threads EXCEPT ![t] =
                                  IF start_byte = <<0>>
                                  THEN [th EXCEPT !.pc = "acc"]
                                  ELSE [th EXCEPT !.i = @ + 1]]
    /\ UNCHANGED <<stream, closed, callbacks, last, lastWrite, run, nwrites, pvars,
                   loop_running, delivered>>

(* read(): one turn of the while True loop, and what update() does with a  *)
(* frame that ends                                                         *)
AccStep(t) ==
    /\ t \in DOMAIN threads
    /\ threads[t].pc = "acc"
    /\ LET th == threads[t]
           inbyte == stream_read(stream, pos, 1)
           d == decode(th.raw_data)
       IN  IF closed
           THEN \* _read_stream raises
                /\ threads' = [threads EXCEPT ![t].pc = "retry"]
                /\ pos' = pos
           ELSE /\ pos' = pos + Len(inbyte)
                /\ threads' = [threads EXCEPT ![t] =
                      IF inbyte # <<0>>
                      THEN IF Len(th.raw_data) = DefaultMaxBytes \/ Len(inbyte) = 0
                           THEN BackToWhile(th, FALSE)
                           ELSE [th EXCEPT !.raw_data = Append(@, inbyte[1])]
                      ELSE IF Len(th.raw_data) < 2
                           THEN BackToWhile(th, FALSE)
                           ELSE IF d.kind = "DecodeError"
                           THEN BackToWhile(th, TRUE)
                           ELSE IF Len(d.data) > 0
                           THEN [th EXCEPT !.pc = "dispatch", !.data = d.data, !.k = 1]
                           ELSE BackToWhile(th, FALSE)]
    /\ UNCHANGED <<stream, closed, callbacks, last, lastWrite, run, nwrites, pvars,
                   loop_running, delivered>>

(* read(): except: continue, in the while True loop                        *)
Retry(t) ==
    /\ t \in DOMAIN threads
    /\ threads[t].pc = "retry"
    /\ threads' = [threads EXCEPT ![t].pc = "acc"]
    /\ UNCHANGED <<svars, pvars, loop_running, delivered>>

(* update(): for cb in self.callbacks: cb(data), one turn; the listener    *)
(* returns or raises                                                       *)
Dispatch(t, raises) ==
    /\ t \in DOMAIN threads
    /\ threads[t].pc = "dispatch"
    /\ LET th == threads[t]
       IN  IF th.k > Len(callbacks)
           THEN /\ ~raises
                /\ threads' = [threads EXCEPT ![t] = BackToWhile(th, FALSE)]
                /\ UNCHANGED delivered
           ELSE /\ delivered' = Append(delivered, <<callbacks[th.k], th.data>>)
                /\ threads' = [threads EXCEPT ![t] =
                                  IF raises THEN BackToWhile(th, TRUE)
                                  ELSE [th EXCEPT !.k = @ + 1]]
    /\ UNCHANGED <<svars, pvars, loop_running>>

(* one step of the t-th background thread                                  *)
ThreadStep(t) ==
    \/ LoopTest(t)
    \/ SyncStep(t)
    \/ AccStep(t)
    \/ Retry(t)
    \/ \E raises \in BOOLEAN : Dispatch(t, raises)

(* SpecLoopOnce: the caller registers listeners, starts the loop once and  *)
(* stops it, while the thread started runs over what the transport holds.  *)
LoopOnceNext ==
    \/ CallerIdle /\ \E cb \in LoopListeners : AddListener(cb)
    \/ threads = <<>> /\ LoopThreadFlag
    \/ LoopThreadStart
    \/ LoopStopFlag
    \/ LoopStopClose
    \/ \E t \in 1..MaxThreads : ThreadStep(t)

SpecLoopOnce == LoopInit /\ [][LoopOnceNext]_vars

(* SpecLoopOnceFair: a thread that can take a step takes one in the end    *)
SpecLoopOnceFair == SpecLoopOnce /\ \A t \in 1..MaxThreads : WF_vars(ThreadStep(t))

(* SpecLoop: loop_thread() is called again, whether or not the loop was    *)
(* stopped in between.                                                     *)
LoopNext ==
    \/ LoopOnceNext
    \/ threads # <<>> /\ LoopThreadFlag

SpecLoop == LoopInit /\ [][LoopNext]_vars

----------------------------------------------------------------------------
(* Properties of the stream engine.                                        *)

(* the bytes the last read() took from the transport *)
Consumed == SubSeq(stream, last.from + 1, pos)

(* bytes skipped while looking for a delimiter, a 0x00, at least 2 bytes   *)
(* other than 0x00, a 0x00                                                 *)
FrameShape(c) ==
    LET k == IndexOfZero(c, 1)
    IN  /\ k < Len(c)
        /\ c[Len(c)] = 0
        /\ \A j \in (k + 1)..(Len(c) - 1) : c[j] # 0
        /\ Len(c) - k - 1 >= 2

(* the number of bytes read after the start delimiter, the terminating     *)
(* 0x00 not counted                                                        *)
RawLen(c) ==
    LET k == IndexOfZero(c, 1)
    IN  IF c[Len(c)] = 0 /\ k < Len(c) THEN Len(c) - k - 1 ELSE Len(c) - k

ReadFrameBack ==
    /\ last.op = "read"
    /\ ~closed
    /\ lastWrite.at >= 0
    /\ last.from = lastWrite.at
    /\ Len(encode(lastWrite.data)) < last.max_bytes

(* C1, as amended: for every non-empty payload x whose stuffed encoding is *)
(* shorter than max_bytes, max_bytes being at least 6, write(x) followed   *)
(* by read(max_bytes) from the position where the frame begins returns x.  *)
C1_RoundTrip ==
    (ReadFrameBack /\ lastWrite.data # <<>> /\ last.max_bytes > SyncSlack)
        => last.ret = [kind |-> "data", data |-> lastWrite.data]

(* a payload holding a zero byte has been written and read back *)
C1_Witness ==
    /\ ReadFrameBack
    /\ lastWrite.data = <<0, 1>>
    /\ last.ret = [kind |-> "data", data |-> <<0, 1>>]

(* C1, as stated: for every payload x, the empty one included, whose       *)
(* stuffed encoding is shorter than max_bytes, write(x) followed by read() *)
(* from the position where the frame begins returns x.                     *)
C1_Original ==
    ReadFrameBack => last.ret = [kind |-> "data", data |-> lastWrite.data]

(* C2: when the transport holds the rest of a truncated frame and then     *)
(* complete frames, the read() calls that consume the transport to its end *)
(* have returned the payload of some frame.                                *)
C2_Resynchronizes ==
    (last.op = "read" /\ pos = Len(stream) /\ last.from = pos) => run.got # <<>>

(* C4: write() hands the transport one buffer, which starts with 0x00,     *)
(* ends with 0x00 and holds no other 0x00; that buffer is what an open     *)
(* transport holds from the cursor on.                                     *)
C4_OneFramedWrite ==
    last.op = "write" =>
        /\ Len(last.wrote) = 1
        /\ LET b == last.wrote[1]
           IN  /\ Len(b) >= 2
               /\ b[1] = 0
               /\ b[Len(b)] = 0
               /\ \A i \in 2..(Len(b) - 1) : b[i] # 0
               /\ last.ret.kind = "int" => SubSeq(stream, last.from + 1, pos) = b

(* a payload holding zero bytes has been written *)
C4_Witness ==
    /\ last.op = "write"
    /\ last.arg = <<0, 0>>
    /\ last.ret.kind = "int"

(* C6: read() returns a payload only when it has consumed a 0x00, at least *)
(* 2 bytes other than 0x00 and a 0x00; a sync budget used up, an over-long *)
(* frame, the end of the stream and a raw buffer shorter than 2 all return *)
(* None and raise nothing.                                                 *)
C6_ReadOutcome ==
    last.op = "read" =>
        /\ last.ret.kind = "data" => FrameShape(Consumed)
        /\ last.outcome \in {"DESYNC_TIMEOUT", "TOO_LONG", "EOF", "SHORT"}
              => last.ret = NoRet
        /\ ~FrameShape(Consumed) => last.ret = NoRet
        /\ (Consumed = <<0>> /\ pos = Len(stream)) => last.ret = NoRet

(* a payload has been returned after bytes before its frame were skipped *)
C6_Witness ==
    /\ last.op = "read"
    /\ last.ret.kind = "data"
    /\ Consumed[1] # 0
    /\ FrameShape(Consumed)

AllListeners(data) == [i \in 1..Len(callbacks) |-> <<callbacks[i], data>>]

(* C10, as amended: when update()'s read yields a non-empty payload, the   *)
(* listeners are called with it in registration order, each registration   *)
(* once, up to and including the first listener that raises, all of them   *)
(* when none raises; when the read yields no frame, none is called.        *)
C10_DispatchInOrder ==
    last.op = "update" =>
        /\ last.arg = <<>> => last.calls = <<>>
        /\ (last.arg # <<>> /\ last.ret.kind = "None")
              => last.calls = AllListeners(last.arg)
        /\ (last.arg # <<>> /\ last.ret.kind = "ListenerError")
              => /\ Len(last.calls) \in 1..Len(callbacks)
                 /\ last.calls = SubSeq(AllListeners(last.arg), 1, Len(last.calls))

(* two different listeners have been called, in registration order *)
C10_Witness ==
    /\ last.op = "update"
    /\ callbacks = <<"cb2", "cb1">>
    /\ last.calls = <<<<"cb2", <<0, 1, 2, 3>>>>, <<"cb1", <<0, 1, 2, 3>>>>>>

(* C10, as stated: when update()'s read yields a non-empty payload, every  *)
(* registered listener is called exactly once, in registration order, with *)
(* that payload; when it yields no frame, none is called.                  *)
C10_Original ==
    last.op = "update" =>
        last.calls = IF last.arg # <<>> THEN AllListeners(last.arg) ELSE <<>>

----------------------------------------------------------------------------
(* Properties of the record.                                               *)

(* the format char of a field of the record's schema *)
FieldChar(k) == fmt(definition)[CHOOSE i \in 1..Len(definition) : definition[i].name = k]

(* the value is one the wire type of the format char holds exactly: a      *)
(* single-precision number, a string of one byte, an integer               *)
Exact(c, v) ==
    IF c = "f"
    THEN \/ v.t = "float" /\ v.f.lo = 0 /\ (v.f.hi = 0 \/ v.f.e \in -126..127)
         \/ v.t = "int" /\ Abs(v.i) <= 2^24
    ELSE IF c = "s" THEN v.t = "bytes" /\ Len(v.b) = 1
    ELSE v.t = "int"

(* unpack() has been given the buffer pack() returned, and has returned *)
Unpacked ==
    /\ plast.op = "unpack"
    /\ plast.argkind = "packed"
    /\ plast.ret.kind = "dict"

(* C3, as amended: for every valid schema and every value assignment       *)
(* whose values the wire types of their fields hold exactly,               *)
(* unpack(pack(v)) returns a mapping equal to v.                           *)
C3_ExactRoundTrip ==
    (Unpacked /\ \A k \in DOMAIN packed.of.map : Exact(FieldChar(k), packed.of.map[k]))
        => DictEq(plast.ret.map, packed.of.map)

(* a negative integer has been packed and unpacked to an equal mapping *)
C3_Witness ==
    /\ Unpacked
    /\ \E k \in DOMAIN packed.of.map : packed.of.map[k] = PyInt(-2)
    /\ DictEq(plast.ret.map, packed.of.map)

(* C3, as stated: for every valid schema and every value assignment pack() *)
(* accepts, unpack(pack(v)) returns a mapping equal to v.                  *)
C3_Original == Unpacked => DictEq(plast.ret.map, packed.of.map)

(* C5: unpack() of a buffer pack() returned, one bit of its payload bytes  *)
(* inverted, fails with the checksum error and assigns nothing; pack()'s   *)
(* buffer is the payload and 2 bytes more, and unpack() of it unchanged    *)
(* does not fail.                                                          *)
C5_BitFlipDetected ==
    /\ (plast.op = "unpack" /\ plast.argkind = "payload bit flipped")
          => plast.ret = ValueError("CRC checksum failed!") /\ ~plast.changed
    /\ (plast.op = "unpack" /\ plast.argkind = "packed") => plast.ret.kind = "dict"
    /\ (plast.op = "pack" /\ plast.ret.kind = "bytes")
          => /\ Len(plast.ret.data) = calcsize(definition) + 2
             /\ \A i \in 1..Len(plast.ret.data) : plast.ret.data[i] \in 0..255

(* a bit of the payload of a two-field record has been inverted *)
C5_Witness ==
    /\ plast.op = "unpack"
    /\ plast.argkind = "payload bit flipped"
    /\ plast.ret.kind = "ValueError"
    /\ Len(definition) = 2

(* C8: after init() has accepted a mapping whose keys are fields of the    *)
(* schema, or a sequence of the schema's length, with values their fields  *)
(* can hold, pack() returns calcsize() + 2 bytes, and set_field() of a     *)
(* field of the schema succeeds.                                           *)
C8_InitThenPack ==
    /\ (/\ plast.op = "pack"
        /\ plast.argkind = "none"
        /\ plast.wasInit
        /\ origin \in {"mapping", "sequence"}
        /\ \A k \in DOMAIN values.map :
              pack_field(FieldChar(k), values.map[k]).kind = "bytes")
          => /\ plast.ret.kind = "bytes"
             /\ Len(plast.ret.data) = calcsize(definition) + 2
    /\ (/\ plast.op = "set_field"
        /\ plast.wasInit
        /\ plast.argkind \in field_names(definition))
          => plast.ret = RetNone

(* C9: set_field(), and pack() without values, on a record that has no     *)
(* values fail with ValueError('Data packet not initialized!') and leave   *)
(* the record without values.                                              *)
C9_UninitializedFails ==
    (/\ plast.op \in {"set_field", "pack"}
     /\ plast.op = "pack" => plast.argkind = "none"
     /\ ~plast.wasInit)
        => /\ plast.ret = ValueError("Data packet not initialized!")
           /\ ~values.init
           /\ ~plast.changed

(* set_field() of a field of the schema has been called on a record that   *)
(* has no values                                                           *)
C9_Witness ==
    /\ plast.op = "set_field"
    /\ plast.argkind \in field_names(definition)
    /\ ~plast.wasInit
    /\ plast.ret.kind = "ValueError"

----------------------------------------------------------------------------
(* C19: read(max_bytes) with max_bytes <= 5 makes no transport read,       *)
(* returns no frame and leaves the transport's position and contents as    *)
(* they were, whatever the transport holds; so does the same call made     *)
(* again.                                                                  *)
C19_NoBudgetNoRead ==
    [][(last'.op = "read" /\ last'.max_bytes <= SyncSlack)
       => /\ last'.ret = NoRet
          /\ last'.nreads = 0
          /\ pos' = pos
          /\ stream' = stream]_vars

C19_Witness ==
    /\ last.op = "read"
    /\ last.max_bytes = SyncSlack
    /\ ~closed
    /\ lastWrite.at >= 0
    /\ lastWrite.data # <<>>
    /\ last.from = lastWrite.at
    /\ last.ret = NoRet
    /\ pos = lastWrite.at

(* the transport reads one read() made looking for the start delimiter     *)
SyncReads ==
    IF last.outcome = "DESYNC_TIMEOUT" THEN last.nreads
    ELSE IndexOfZero(Consumed, 1)

(* the most attempts the start-delimiter loop makes: range(max_bytes - 5)  *)
SyncBudget(max_bytes) == IF max_bytes > SyncSlack THEN max_bytes - SyncSlack ELSE 0

(* C20: when no transport read raises, read(max_bytes) ends after at most  *)
(* max_bytes - 5 transport reads made looking for the start delimiter and  *)
(* at most max_bytes + 1 transport reads made after it.                    *)
C20_BoundedReads ==
    (last.op = "read" /\ ~closed)
    => /\ SyncReads <= SyncBudget(last.max_bytes)
       /\ last.nreads - SyncReads <= last.max_bytes + 1

C20_Witness ==
    /\ last.op = "read"
    /\ ~closed
    /\ last.max_bytes > SyncSlack
    /\ SyncReads = SyncBudget(last.max_bytes)
    /\ last.nreads - SyncReads = last.max_bytes + 1

----------------------------------------------------------------------------
(* C18: an init() that raises (a key that is no field, a sequence of the   *)
(* wrong length, an input that is neither) and an unpack() that raises (a  *)
(* checksum that does not match, a payload of the wrong length) leave the  *)
(* record's value map as it was before the call.                           *)
C18_FailureKeepsValues ==
    /\ (plast.op = "init" /\ plast.ret.kind # "None") => ~plast.changed
    /\ (plast.op = "unpack" /\ plast.ret.kind # "dict") => ~plast.changed

C18_Witness ==
    /\ plast.op = "unpack"
    /\ plast.ret = ValueError("CRC checksum failed!")
    /\ ~plast.wasInit
    /\ values = None
    /\ packed.buf # <<>>

----------------------------------------------------------------------------
(* the frames of successive write() calls, one after the other             *)
RECURSIVE Frames(_)
Frames(xs) == IF xs = <<>> THEN <<>> ELSE frame(Head(xs)) \o Frames(Tail(xs))

PayloadRuns == UNION {[1..n -> NonEmptyPayloads] : n \in 0..MaxWrites}

(* the payloads x1..xn the write() calls were given, in order              *)
Written == CHOOSE xs \in PayloadRuns : Frames(xs) = stream

(* C16: after n write() calls of non-empty payloads x1..xn and with the    *)
(* reader at the first frame's leading delimiter, the payloads the         *)
(* successive read() calls have returned are x1..xk in that order, the     *)
(* reader stands at the leading delimiter of frame k+1, every read() made  *)
(* before the end of the stream returns a payload, and a read() made at    *)
(* the end of the stream returns no frame.                                 *)
C16_ReadsInOrder ==
    LET xs == Written
        k == Len(run.got)
    IN  last.op = "read"
        => /\ k <= Len(xs)
           /\ run.got = SubSeq(xs, 1, k)
           /\ pos = Len(Frames(SubSeq(xs, 1, k)))
           /\ last.from < Len(stream)
                 => k >= 1 /\ last.ret = [kind |-> "data", data |-> xs[k]]
           /\ last.from = Len(stream) => k = Len(xs) /\ last.ret = NoRet

C16_Witness ==
    /\ last.op = "read"
    /\ nwrites >= 2
    /\ Len(run.got) = nwrites
    /\ run.got[1] # run.got[2]
    /\ run.got = Written
    /\ last.from = Len(stream)
    /\ last.ret = NoRet

----------------------------------------------------------------------------
(* PacketCOBS.read() has just been called, on an open transport, from the  *)
(* position where the frame of the last PacketCOBS.write() begins          *)
ChannelReadBack ==
    /\ plast.op = "read"
    /\ last.op = "read"
    /\ ~closed
    /\ packed.buf # <<>>
    /\ lastWrite.at >= 0
    /\ lastWrite.data = packed.buf
    /\ last.from = lastWrite.at

ChannelHasRead == plast.op = "read" /\ last.op = "read"

(* C17: when the driver's read() yields no frame, PacketCOBS.read()        *)
(* returns a record carrying the values the channel's record had, those of *)
(* the last frame unpacked (none when no frame was), and the channel's     *)
(* record changes only in a read() that unpacks a frame, which returns a   *)
(* record carrying the new values.                                         *)
C17_NoFrameKeepsRecord ==
    /\ (ChannelHasRead /\ last.ret.kind = "None")
         => plast.ret = RetPacket(values) /\ ~plast.changed
    /\ plast.changed => plast.op = "read" /\ plast.ret = RetPacket(values)
    /\ (ChannelHasRead /\ plast.changed) => last.ret.kind = "data"
    /\ values.init => origin = "unpack"

C17_Witness ==
    /\ ChannelHasRead
    /\ last.ret.kind = "None"
    /\ values.init
    /\ plast.wasInit
    /\ plast.ret = RetPacket(values)

----------------------------------------------------------------------------
(* one thread was started, with one listener registered, and no listener   *)
(* has been registered since                                               *)
SoloRun ==
    /\ Len(threads) = 1
    /\ threads[1].listeners = 1
    /\ Len(callbacks) = 1

(* the thread has read the transport to its end and is not in a frame      *)
DrainedBy(th) == pos = Len(stream) /\ th.pc \in {"while", "sync", "exited"}

(* the non-empty payloads read() returns when it is called again and again *)
(* from position p of s to the end of s                                    *)
RECURSIVE Drain(_, _)
Drain(s, p) ==
    LET r == read(s, p, FALSE, DefaultMaxBytes)
    IN  IF r.pos = p THEN <<>>
        ELSE (IF r.kind = "data" /\ Len(r.data) > 0 THEN <<r.data>> ELSE <<>>)
             \o Drain(s, r.pos)

Exited(t) == threads[t].pc = "exited"

(* C11: with one listener registered and a transport that holds one valid  *)
(* frame of a non-empty payload x and nothing else, the background loop    *)
(* never calls the listener but once with x, and has called it once with x *)
(* when it has read the transport to its end; when loop_stop() has         *)
(* returned the transport is closed and the running flag is cleared.       *)
C11_OneDelivery ==
    /\ \A x \in LoopFramePayloads :
          (SoloRun /\ stream = frame(x))
          => /\ delivered \in {<<>>, <<<<callbacks[1], x>>>>}
             /\ DrainedBy(threads[1]) => delivered = <<<<callbacks[1], x>>>>
    /\ (last.op = "loop_stop" /\ CallerIdle) => closed /\ ~loop_running

C11_Witness ==
    /\ SoloRun
    /\ stream = frame(<<0, 1>>)
    /\ delivered = <<<<"cb1", <<0, 1>>>>>>
    /\ last.op = "loop_stop"
    /\ CallerIdle
    /\ closed
    /\ Exited(1)

(* C12: once loop_stop() has cleared the running flag and closed the       *)
(* transport, every background thread exits in the end (unless the loop is *)
(* started again), whatever it was doing when the transport was closed.    *)
C12_LoopTerminates ==
    (closed /\ ~loop_running /\ CallerIdle)
        ~> (loop_running \/ \A t \in DOMAIN threads : Exited(t))

(* C13: a background thread exits only at the test of the running flag,    *)
(* with the flag cleared; an exception raised in an update() takes it back *)
(* to that test; and with one thread and one listener, whatever was raised *)
(* on the way, every valid non-empty frame the transport holds has been    *)
(* dispatched, in order, when the thread has read the transport to its     *)
(* end.                                                                    *)
C13_LoopSurvives ==
    /\ [](SoloRun /\ DrainedBy(threads[1])
          => delivered = [j \in 1..Len(Drain(stream, 0)) |->
                             <<callbacks[1], Drain(stream, 0)[j]>>])
    /\ [][\A t \in DOMAIN threads :
            /\ (~Exited(t) /\ threads'[t].pc = "exited")
                 => threads[t].pc = "while" /\ ~loop_running
            /\ (~threads[t].caught /\ threads'[t].caught)
                 => threads'[t].pc = "while"]_vars

(* a malformed frame raised DecodeError, and the frame after it was        *)
(* dispatched                                                              *)
C13_Witness ==
    /\ SoloRun
    /\ stream = Malformed \o frame(<<1>>)
    /\ threads[1].caught
    /\ DrainedBy(threads[1])
    /\ loop_running
    /\ delivered = <<<<"cb1", <<1>>>>>>

(* C14: at most one background thread is running update() at any time.     *)
C14_OneLoopContext ==
    Cardinality({t \in DOMAIN threads : ~Exited(t)}) <= 1

====
